---- MODULE Spec2Model ----
(***************************************************************************)
(* A model of src/src/tamagotchi.rs: the Tamagotchi value, its Status, the  *)
(* graded attributes Hunger, Mood, Health and Discipline with their         *)
(* hearts / meter scores and better / worse steps, Status::care_level, the  *)
(* Status transitions eat, play, sleep and the Tamagotchi actions.          *)
(*                                                                          *)
(* Enum variants are strings carrying the variant's name.  The f64 weight   *)
(* is kept in tenths of a unit (0.5 is 5, 0.2 is 2), inside a range where   *)
(* the f64 sum is the decimal sum.                                          *)
(***************************************************************************)
EXTENDS Integers, FiniteSets, Sequences, TLC

VARIABLES
    tamagotchi,   \* TamagotchiInterface.tamagotchi: the one live Tamagotchi
    initial,      \* the Tamagotchi the run started from (never changes)
    op,           \* the operation that produced the current state
    ret,          \* the value returned by care_level or reduce, when op is one of them
    feeds,        \* number of feed calls so far
    plays,        \* number of play calls so far
    sleeps        \* number of sleep calls so far

vars == <<tamagotchi, initial, op, ret, feeds, plays, sleeps>>

-----------------------------------------------------------------------------
(* Bounds of the model *)

MaxFeeds == 5
MaxPlays == 1
MaxSleeps == 4

-----------------------------------------------------------------------------
(* The enums *)

Gender == {"Male", "Female"}

TeenForm == {"Tongaritchi", "Hashitamatchi"}

AdultForm == {"Mimitchi", "Pochitchi", "Nyatchi", "Zuccitchi", "Hashizoutchi",
              "Kusatchi", "Takotchi"}

SpecialForm == {"Sekitoritchi", "Charitchi", "Zatchi"}

Form == {"Tamago", "Shirobabytchi", "Tonmarutchi"}
            \cup {<<"Teen", f>> : f \in TeenForm}
            \cup {<<"Adult", f>> : f \in AdultForm}
            \cup {<<"Special", f>> : f \in SpecialForm}

CareLevel == {"Bad", "BelowAverage", "AboveAverage", "Good", "Perfect"}

Hunger == {"Starving", "Famished", "Snackish", "Peckish", "Full"}

Light == {"On", "Off"}

Mood == {"Miserable", "Pessemistic", "Indifferent", "Optimistic", "Cheerful"}

Health == {"Neglected", "Weak", "Normal", "Strong", "Eggcellent"}

Discipline == {"Bratty", "Spoiled", "Average", "Goody2Shoes", "ModelAlien"}

Behavior == {"Good", "Bad"}

\* Form::default()
Form_default == "Tamago"

\* CareLevel::default(), were it the top of the scale
CareLevel_default_top == "Perfect"

\* CareLevel::default()
CareLevel_default == "Good"

\* Hunger::default()
Hunger_default == "Starving"

\* Mood::default()
Mood_default == "Miserable"

\* Health::default()
Health_default == "Neglected"

\* the value of a match that reaches unreachable!(): the call panics
Panic == "panic"

-----------------------------------------------------------------------------
(* Hearts, Discipline::meter and BetterOrWorse *)

Hunger_hearts(self) ==
    CASE self = "Starving" -> 0
      [] self = "Famished" -> 1
      [] self = "Snackish" -> 2
      [] self = "Peckish"  -> 3
      [] self = "Full"     -> 4

\* better with the Peckish arm repeated from the arm above it
Hunger_better_stuck(self) ==
    CASE self = "Starving" -> "Famished"
      [] self = "Famished" -> "Snackish"
      [] self = "Snackish" -> "Peckish"
      [] self = "Peckish"  -> "Peckish"
      [] self = "Full"     -> "Full"

Hunger_better(self) ==
    CASE self = "Starving" -> "Famished"
      [] self = "Famished" -> "Snackish"
      [] self = "Snackish" -> "Peckish"
      [] self = "Peckish"  -> "Full"
      [] self = "Full"     -> "Full"

Hunger_worse(self) ==
    CASE self = "Starving" -> "Starving"
      [] self = "Famished" -> "Starving"
      [] self = "Snackish" -> "Famished"
      [] self = "Peckish"  -> "Snackish"
      [] self = "Full"     -> "Peckish"

Mood_hearts(self) ==
    CASE self = "Miserable"   -> 0
      [] self = "Pessemistic" -> 1
      [] self = "Indifferent" -> 2
      [] self = "Optimistic"  -> 3
      [] self = "Cheerful"    -> 4

Mood_better(self) ==
    CASE self = "Miserable"   -> "Pessemistic"
      [] self = "Pessemistic" -> "Indifferent"
      [] self = "Indifferent" -> "Optimistic"
      [] self = "Optimistic"  -> "Cheerful"
      [] self = "Cheerful"    -> "Cheerful"

\* worse with the Cheerful arm saturating like better's
Mood_worse_sticky_top(self) ==
    CASE self = "Miserable"   -> "Miserable"
      [] self = "Pessemistic" -> "Miserable"
      [] self = "Indifferent" -> "Pessemistic"
      [] self = "Optimistic"  -> "Indifferent"
      [] self = "Cheerful"    -> "Cheerful"

Mood_worse(self) ==
    CASE self = "Miserable"   -> "Miserable"
      [] self = "Pessemistic" -> "Miserable"
      [] self = "Indifferent" -> "Pessemistic"
      [] self = "Optimistic"  -> "Indifferent"
      [] self = "Cheerful"    -> "Optimistic"

Health_hearts(self) ==
    CASE self = "Neglected"  -> 0
      [] self = "Weak"       -> 1
      [] self = "Normal"     -> 2
      [] self = "Strong"     -> 3
      [] self = "Eggcellent" -> 4

\* better with the Strong arm repeated from the arm above it
Health_better_stuck(self) ==
    CASE self = "Neglected"  -> "Weak"
      [] self = "Weak"       -> "Normal"
      [] self = "Normal"     -> "Strong"
      [] self = "Strong"     -> "Strong"
      [] self = "Eggcellent" -> "Eggcellent"

Health_better(self) ==
    CASE self = "Neglected"  -> "Weak"
      [] self = "Weak"       -> "Normal"
      [] self = "Normal"     -> "Strong"
      [] self = "Strong"     -> "Eggcellent"
      [] self = "Eggcellent" -> "Eggcellent"

Health_worse(self) ==
    CASE self = "Neglected"  -> "Neglected"
      [] self = "Weak"       -> "Neglected"
      [] self = "Normal"     -> "Weak"
      [] self = "Strong"     -> "Normal"
      [] self = "Eggcellent" -> "Strong"

\* meter counting from 1: ModelAlien scores 5
meter_from_one(self) ==
    CASE self = "Bratty"      -> 1
      [] self = "Spoiled"     -> 2
      [] self = "Average"     -> 3
      [] self = "Goody2Shoes" -> 4
      [] self = "ModelAlien"  -> 5

meter(self) ==
    CASE self = "Bratty"      -> 0
      [] self = "Spoiled"     -> 1
      [] self = "Average"     -> 2
      [] self = "Goody2Shoes" -> 3
      [] self = "ModelAlien"  -> 4

-----------------------------------------------------------------------------
(* impl Status *)

\* the sum care_level matches on
care_score(self) ==
    Hunger_hearts(self.hunger) + Mood_hearts(self.mood)
        + Health_hearts(self.health) + meter(self.discipline)

\* care_level with the Good arm one value too wide: 16 never reaches Perfect
care_level_wide_good(self) ==
    LET care == care_score(self) IN
    CASE care \in {0, 1, 2, 3}         -> "Bad"
      [] care \in {4, 5, 6, 7}         -> "BelowAverage"
      [] care \in {8, 9, 10, 11}       -> "AboveAverage"
      [] care \in {12, 13, 14, 15, 16} -> "Good"
      [] OTHER                         -> Panic

care_level(self) ==
    LET care == care_score(self) IN
    CASE care \in {0, 1, 2, 3}     -> "Bad"
      [] care \in {4, 5, 6, 7}     -> "BelowAverage"
      [] care \in {8, 9, 10, 11}   -> "AboveAverage"
      [] care \in {12, 13, 14, 15} -> "Good"
      [] care = 16                 -> "Perfect"
      [] OTHER                     -> Panic

\* eat stepping Hunger the wrong way
eat_worse(self) ==
    LET hunger == Hunger_worse(self.hunger) IN
    [self EXCEPT !.hunger = hunger]

eat(self) ==
    LET hunger == Hunger_better(self.hunger) IN
    [self EXCEPT !.hunger = hunger]

\* play with sleep's body: Health stepped too
Status_play_as_sleep(self) ==
    LET mood == Mood_better(self.mood)
        health == Health_better(self.health) IN
    [self EXCEPT !.mood = mood, !.health = health]

\* play stepping Mood the wrong way
Status_play_worse(self) ==
    LET mood == Mood_worse(self.mood) IN
    [self EXCEPT !.mood = mood]

Status_play(self) ==
    LET mood == Mood_better(self.mood) IN
    [self EXCEPT !.mood = mood]

\* sleep returning early once Mood is at the top
sleep_stops_at_cheerful(self) ==
    IF self.mood = "Cheerful"
        THEN self
        ELSE [self EXCEPT !.mood = Mood_better(self.mood),
                          !.health = Health_better(self.health)]

\* sleep with the Health step left out
sleep_mood_only(self) ==
    LET mood == Mood_better(self.mood) IN
    [self EXCEPT !.mood = mood]

sleep(self) ==
    LET mood == Mood_better(self.mood)
        health == Health_better(self.health) IN
    [self EXCEPT !.mood = mood, !.health = health]

-----------------------------------------------------------------------------
(* impl Behavior *)

\* the match of Behavior::reduce on the bool that rand::random() drew
reduce(random) ==
    CASE random = TRUE  -> "Good"
      [] random = FALSE -> "Bad"

-----------------------------------------------------------------------------
(* impl Tamagotchi *)

\* feed with play's weight increment
feed_weight_slip(self) ==
    LET status == eat(self.status) IN
    [name   |-> self.name,
     gender |-> self.gender,
     age    |-> self.age,
     weight |-> self.weight + 2,
     form   |-> self.form,
     status |-> status]

feed(self) ==
    LET status == eat(self.status) IN
    [name   |-> self.name,
     gender |-> self.gender,
     age    |-> self.age,
     weight |-> self.weight + 5,
     form   |-> self.form,
     status |-> status]

\* the toggled Light is bound to a local that the returned value never uses
light(self) ==
    LET status == CASE self.status.light = "On"  -> "Off"
                    [] self.status.light = "Off" -> "On" IN
    self

\* play building the form anew instead of cloning it
play_form_reset(self) ==
    LET status == Status_play(self.status) IN
    [name   |-> self.name,
     gender |-> self.gender,
     age    |-> self.age,
     weight |-> self.weight - 2,
     form   |-> Form_default,
     status |-> status]

play(self) ==
    LET status == Status_play(self.status) IN
    [name   |-> self.name,
     gender |-> self.gender,
     age    |-> self.age,
     weight |-> self.weight - 2,
     form   |-> self.form,
     status |-> status]

\* give_medicine with the effect its comment names: the sickness cured
give_medicine_cures(self) ==
    [self EXCEPT !.status.sick = FALSE]

give_medicine(self) == self

duck(self) == self

attention(self) == self

\* discipline stepping Discipline one level better
discipline_improves(self) ==
    [self EXCEPT !.status.discipline =
        CASE @ = "Bratty"      -> "Spoiled"
          [] @ = "Spoiled"     -> "Average"
          [] @ = "Average"     -> "Goody2Shoes"
          [] @ = "Goody2Shoes" -> "ModelAlien"
          [] @ = "ModelAlien"  -> "ModelAlien"]

discipline(self) == self

-----------------------------------------------------------------------------
(* The states a run may start from *)

Status ==
    [care : CareLevel, hunger : Hunger, light : Light, asleep : BOOLEAN,
     mood : Mood, sick : BOOLEAN, soiled : BOOLEAN, health : Health,
     discipline : Discipline]

\* The Status built from the Default impls: CareLevel::Good, Hunger::Starving,
\* Mood::Miserable, Health::Neglected and false for the bools.  Light and
\* Discipline implement no Default, so any variant may stand there.
DefaultStatus ==
    {s \in Status : /\ s.care = CareLevel_default
                    /\ s.hunger = Hunger_default
                    /\ s.mood = Mood_default
                    /\ s.health = Health_default
                    /\ ~s.asleep /\ ~s.sick /\ ~s.soiled}

\* A Status that differs from a default one in its graded levels only
LevelStatus ==
    {s \in Status : /\ s.care = "Good"
                    /\ s.light = "On"
                    /\ ~s.asleep /\ ~s.sick /\ ~s.soiled}

\* A Status that differs from a default one in care and the conditions only
CondStatus ==
    {s \in Status : /\ s.hunger = "Starving"
                    /\ s.mood = "Miserable"
                    /\ s.health = "Neglected"}

\* name, gender, age, weight and form of an egg and of a child
\* (`Base weight is 10lbs`); the egg is Form::default()
Egg ==
    [name |-> "tama", gender |-> "Male", age |-> 0, weight |-> 50,
     form |-> Form_default]

Child ==
    [name |-> "gotchi", gender |-> "Female", age |-> 1, weight |-> 100,
     form |-> "Tonmarutchi"]

Tamagotchi(body, status) ==
    [name   |-> body.name,
     gender |-> body.gender,
     age    |-> body.age,
     weight |-> body.weight,
     form   |-> body.form,
     status |-> status]

\* A Tamagotchi as first built: an egg whose Status comes from the Default impls
NewTamagotchi == {Tamagotchi(Egg, s) : s \in DefaultStatus}

Init ==
    /\ tamagotchi \in {Tamagotchi(Egg, s) : s \in LevelStatus}
                 \cup {Tamagotchi(b, s) : b \in {Egg, Child}, s \in CondStatus}
    /\ initial = tamagotchi
    /\ op = "new"
    /\ ret = "none"
    /\ feeds = 0
    /\ plays = 0
    /\ sleeps = 0

-----------------------------------------------------------------------------
(* One action per operation *)

Feed ==
    /\ feeds < MaxFeeds
    /\ tamagotchi' = feed(tamagotchi)
    /\ op' = "feed"
    /\ ret' = "none"
    /\ feeds' = feeds + 1
    /\ UNCHANGED <<initial, plays, sleeps>>

LightAct ==
    /\ tamagotchi' = light(tamagotchi)
    /\ op' = "light"
    /\ ret' = "none"
    /\ UNCHANGED <<initial, feeds, plays, sleeps>>

Play ==
    /\ plays < MaxPlays
    /\ tamagotchi' = play(tamagotchi)
    /\ op' = "play"
    /\ ret' = "none"
    /\ plays' = plays + 1
    /\ UNCHANGED <<initial, feeds, sleeps>>

GiveMedicine ==
    /\ tamagotchi' = give_medicine(tamagotchi)
    /\ op' = "give_medicine"
    /\ ret' = "none"
    /\ UNCHANGED <<initial, feeds, plays, sleeps>>

Duck ==
    /\ tamagotchi' = duck(tamagotchi)
    /\ op' = "duck"
    /\ ret' = "none"
    /\ UNCHANGED <<initial, feeds, plays, sleeps>>

Attention ==
    /\ tamagotchi' = attention(tamagotchi)
    /\ op' = "attention"
    /\ ret' = "none"
    /\ UNCHANGED <<initial, feeds, plays, sleeps>>

DisciplineAct ==
    /\ tamagotchi' = discipline(tamagotchi)
    /\ op' = "discipline"
    /\ ret' = "none"
    /\ UNCHANGED <<initial, feeds, plays, sleeps>>

\* Status::sleep on the Tamagotchi's status
Sleep ==
    /\ sleeps < MaxSleeps
    /\ tamagotchi' = [tamagotchi EXCEPT !.status = sleep(@)]
    /\ op' = "sleep"
    /\ ret' = "none"
    /\ sleeps' = sleeps + 1
    /\ UNCHANGED <<initial, feeds, plays>>

\* Status::care_level read on the Tamagotchi's status
CareLevelCall ==
    /\ ret' = care_level(tamagotchi.status)
    /\ op' = "care_level"
    /\ UNCHANGED <<tamagotchi, initial, feeds, plays, sleeps>>

\* Behavior::reduce, with the bool rand::random() returns drawn here
Reduce ==
    /\ \E random \in BOOLEAN : ret' = reduce(random)
    /\ op' = "reduce"
    /\ UNCHANGED <<tamagotchi, initial, feeds, plays, sleeps>>

Next ==
    \/ Feed
    \/ LightAct
    \/ Play
    \/ GiveMedicine
    \/ Duck
    \/ Attention
    \/ DisciplineAct
    \/ Sleep
    \/ CareLevelCall
    \/ Reduce

Spec == Init /\ [][Next]_vars

\* A child with default levels and conditions, any Light and Discipline
InitChild ==
    /\ tamagotchi \in {Tamagotchi(Child, s) : s \in DefaultStatus}
    /\ initial = tamagotchi
    /\ op = "new"
    /\ ret = "none"
    /\ feeds = 0
    /\ plays = 0
    /\ sleeps = 0

\* An egg with default conditions, any Hunger, Mood and Health, and one
\* Discipline (no operation reads or writes it but care_level)
InitLevels ==
    /\ tamagotchi \in {Tamagotchi(Egg, s) :
                           s \in {l \in LevelStatus : l.discipline = "ModelAlien"}}
    /\ initial = tamagotchi
    /\ op = "new"
    /\ ret = "none"
    /\ feeds = 0
    /\ plays = 0
    /\ sleeps = 0

\* feed and sleep are each called again and again
SpecCare == InitLevels /\ [][Next]_vars /\ WF_vars(Feed) /\ WF_vars(Sleep)

\* The shell never stops calling into the core
SpecChild == InitChild /\ [][Next]_vars /\ WF_vars(Next)

-----------------------------------------------------------------------------
(* Vocabulary of the properties *)

Min(a, b) == IF a < b THEN a ELSE b

\* the band of a care score, by the partition [0-3] [4-7] [8-11] [12-15] [16]
Band(score) ==
    <<"Bad", "BelowAverage", "AboveAverage", "Good", "Perfect">>[(score \div 4) + 1]

\* score after one saturating step up / down on the 0..4 scale
Up(n) == IF n = 4 THEN 4 ELSE n + 1

Down(n) == IF n = 0 THEN 0 ELSE n - 1

\* the place of a Form in the order Egg, Baby, Child, Teen, Adult, Special
Stage(form) ==
    CASE form = "Tamago"        -> 0
      [] form = "Shirobabytchi" -> 1
      [] form = "Tonmarutchi"   -> 2
      [] form[1] = "Teen"       -> 3
      [] form[1] = "Adult"      -> 4
      [] form[1] = "Special"    -> 5

\* the place of a CareLevel in the order Bad .. Perfect
BandIndex(care) ==
    CASE care = "Bad"          -> 0
      [] care = "BelowAverage" -> 1
      [] care = "AboveAverage" -> 2
      [] care = "Good"         -> 3
      [] care = "Perfect"      -> 4

\* Hunger, Mood and Health all at their top level
Top(status) ==
    /\ status.hunger = "Full"
    /\ status.mood = "Cheerful"
    /\ status.health = "Eggcellent"

\* n eats, n plays, n sleeps in a row
RECURSIVE Eats(_, _)
Eats(status, n) == IF n = 0 THEN status ELSE Eats(eat(status), n - 1)

RECURSIVE Plays(_, _)
Plays(status, n) == IF n = 0 THEN status ELSE Plays(Status_play(status), n - 1)

RECURSIVE Sleeps(_, _)
Sleeps(status, n) == IF n = 0 THEN status ELSE Sleeps(sleep(status), n - 1)

\* t and u agree on every Tamagotchi field but weight and status
SameBody(t, u) ==
    /\ t.name = u.name
    /\ t.gender = u.gender
    /\ t.age = u.age
    /\ t.form = u.form

-----------------------------------------------------------------------------
(* C1: after any sequence of actions from the default Status, the care
   stored in the Status is the value care_level computes from the current
   hunger, mood, health and discipline.  The code copies care in every
   transition and never recomputes it, so this fails after the first
   action. *)
C1_StoredCareIsCurrent ==
    (initial.status \in DefaultStatus /\ op # "new")
        => tamagotchi.status.care = care_level(tamagotchi.status)

(* C2: feed steps Hunger exactly one level better (Full stays Full), raises
   weight by exactly 0.5 and leaves name, gender, age, form and the Status
   fields care, light, asleep, mood, sick, soiled, health and discipline
   unchanged. *)
C2_FeedEffect ==
    [][op' = "feed" =>
        LET s == tamagotchi.status
            t == tamagotchi'.status IN
        /\ t.hunger \in Hunger
        /\ Hunger_hearts(t.hunger) = Up(Hunger_hearts(s.hunger))
        /\ tamagotchi'.weight = tamagotchi.weight + 5
        /\ SameBody(tamagotchi', tamagotchi)
        /\ t.care = s.care /\ t.light = s.light /\ t.asleep = s.asleep
        /\ t.mood = s.mood /\ t.sick = s.sick /\ t.soiled = s.soiled
        /\ t.health = s.health /\ t.discipline = s.discipline
        /\ DOMAIN tamagotchi' = DOMAIN tamagotchi
        /\ DOMAIN t = DOMAIN s]_vars

\* a feed of a Tamagotchi that was already Full, and one of a Starving one
C2_Witness ==
    /\ op = "feed"
    /\ feeds = 1
    /\ initial.status.hunger = "Full"
    /\ tamagotchi.status.hunger = "Full"
    /\ tamagotchi.weight = initial.weight + 5

(* C3: play steps Mood exactly one level better (Cheerful stays Cheerful),
   lowers weight by exactly 0.2 and leaves name, gender, age, form and the
   Status fields care, hunger, light, asleep, sick, soiled, health and
   discipline unchanged. *)
C3_PlayEffect ==
    [][op' = "play" =>
        LET s == tamagotchi.status
            t == tamagotchi'.status IN
        /\ t.mood \in Mood
        /\ Mood_hearts(t.mood) = Up(Mood_hearts(s.mood))
        /\ tamagotchi'.weight = tamagotchi.weight - 2
        /\ SameBody(tamagotchi', tamagotchi)
        /\ t.care = s.care /\ t.hunger = s.hunger /\ t.light = s.light
        /\ t.asleep = s.asleep /\ t.sick = s.sick /\ t.soiled = s.soiled
        /\ t.health = s.health /\ t.discipline = s.discipline
        /\ DOMAIN tamagotchi' = DOMAIN tamagotchi
        /\ DOMAIN t = DOMAIN s]_vars

\* a play of a Tamagotchi that sleep had already made Cheerful
C3_Witness ==
    /\ op = "play"
    /\ plays = 1
    /\ initial.status.mood = "Optimistic"
    /\ initial.status.health = "Strong"
    /\ tamagotchi.status.health = "Eggcellent"
    /\ tamagotchi.status.mood = "Cheerful"
    /\ tamagotchi.weight = initial.weight - 2

(* C4: one sleep steps both Mood and Health one level better, each saturating
   at its top level independently of the other, and leaves care, hunger,
   light, asleep, sick, soiled and discipline unchanged. *)
C4_SleepEffect ==
    [][op' = "sleep" =>
        LET s == tamagotchi.status
            t == tamagotchi'.status IN
        /\ t.mood \in Mood /\ t.health \in Health
        /\ Mood_hearts(t.mood) = Up(Mood_hearts(s.mood))
        /\ Health_hearts(t.health) = Up(Health_hearts(s.health))
        /\ t.care = s.care /\ t.hunger = s.hunger /\ t.light = s.light
        /\ t.asleep = s.asleep /\ t.sick = s.sick /\ t.soiled = s.soiled
        /\ t.discipline = s.discipline
        /\ DOMAIN t = DOMAIN s]_vars

\* a sleep with Mood already at the top and Health still below it
C4_Witness ==
    /\ op = "sleep"
    /\ initial.status.mood = "Cheerful"
    /\ initial.status.health = "Neglected"
    /\ tamagotchi.status.mood = "Cheerful"
    /\ tamagotchi.status.health = "Weak"

(* C5: care_level returns the band of hearts(hunger) + hearts(mood) +
   hearts(health) + meter(discipline): 0-3 Bad, 4-7 BelowAverage, 8-11
   AboveAverage, 12-15 Good, 16 Perfect; Perfect is returned only when all
   four attributes are at their top level, and Bad is returned when all four
   are at index 0. *)
C5_CareLevelBands ==
    op = "care_level" =>
        LET s == tamagotchi.status
            sum == Hunger_hearts(s.hunger) + Mood_hearts(s.mood)
                       + Health_hearts(s.health) + meter(s.discipline)
            top == /\ s.hunger = "Full" /\ s.mood = "Cheerful"
                   /\ s.health = "Eggcellent" /\ s.discipline = "ModelAlien"
            bottom == /\ s.hunger = "Starving" /\ s.mood = "Miserable"
                      /\ s.health = "Neglected" /\ s.discipline = "Bratty" IN
        /\ ret = Band(sum)
        /\ (ret = "Perfect") <=> top
        /\ bottom => ret = "Bad"

\* care_level called with all four attributes at the top
C5_Witness ==
    /\ op = "care_level"
    /\ ret = "Perfect"
    /\ tamagotchi.status.hunger = "Full"
    /\ tamagotchi.status.mood = "Cheerful"
    /\ tamagotchi.status.health = "Eggcellent"
    /\ tamagotchi.status.discipline = "ModelAlien"

(* C6: in every state reachable from any well-typed Status the care score
   lies in [0,16], and no call of care_level takes the unreachable arm. *)
C6_ScoreInRange ==
    /\ care_score(tamagotchi.status) \in 0..16
    /\ care_level(tamagotchi.status) # Panic
    /\ op = "care_level" => ret \in CareLevel

\* care_level called at the largest score, reached by actions from below it
C6_Witness ==
    /\ op = "care_level"
    /\ care_score(initial.status) < 16
    /\ care_score(tamagotchi.status) = 16
    /\ feeds > 0

(* C7, as the spec words it: for every graded attribute and every level L,
   worse(better(L)) equals L unless L was already at the minimum.  It fails
   at the top level, where better saturates and worse then steps down. *)
C7_RoundTripUnlessMin ==
    LET s == tamagotchi.status IN
    /\ s.hunger # "Starving" => Hunger_worse(Hunger_better(s.hunger)) = s.hunger
    /\ s.mood # "Miserable" => Mood_worse(Mood_better(s.mood)) = s.mood
    /\ s.health # "Neglected" => Health_worse(Health_better(s.health)) = s.health

(* C7, amended: worse(better(L)) equals L unless L was already at the
   maximum, where it is the level just below the maximum. *)
C7_RoundTripUnlessMax ==
    LET s == tamagotchi.status IN
    /\ Hunger_worse(Hunger_better(s.hunger))
           = (IF s.hunger = "Full" THEN "Peckish" ELSE s.hunger)
    /\ Mood_worse(Mood_better(s.mood))
           = (IF s.mood = "Cheerful" THEN "Optimistic" ELSE s.mood)
    /\ Health_worse(Health_better(s.health))
           = (IF s.health = "Eggcellent" THEN "Strong" ELSE s.health)

\* a level at the minimum, one in the middle and one at the maximum
C7_Witness ==
    /\ tamagotchi.status.hunger = "Starving"
    /\ tamagotchi.status.mood = "Cheerful"
    /\ tamagotchi.status.health = "Normal"
    /\ op = "sleep"

(* C8: for Hunger, Mood and Health, better and worse are total over the five
   levels and saturating: better raises hearts by exactly 1 below the top
   and returns the top unchanged (better(better(max)) = better(max)); worse
   lowers hearts by exactly 1 above the bottom and returns the bottom
   unchanged. *)
C8_TotalSaturating ==
    LET s == tamagotchi.status IN
    /\ Hunger_better(s.hunger) \in Hunger /\ Hunger_worse(s.hunger) \in Hunger
    /\ Hunger_hearts(Hunger_better(s.hunger)) = Up(Hunger_hearts(s.hunger))
    /\ Hunger_hearts(Hunger_worse(s.hunger)) = Down(Hunger_hearts(s.hunger))
    /\ Hunger_hearts(s.hunger) = 4 =>
           /\ Hunger_better(s.hunger) = s.hunger
           /\ Hunger_better(Hunger_better(s.hunger)) = Hunger_better(s.hunger)
    /\ Hunger_hearts(s.hunger) = 0 => Hunger_worse(s.hunger) = s.hunger
    /\ Mood_better(s.mood) \in Mood /\ Mood_worse(s.mood) \in Mood
    /\ Mood_hearts(Mood_better(s.mood)) = Up(Mood_hearts(s.mood))
    /\ Mood_hearts(Mood_worse(s.mood)) = Down(Mood_hearts(s.mood))
    /\ Mood_hearts(s.mood) = 4 =>
           /\ Mood_better(s.mood) = s.mood
           /\ Mood_better(Mood_better(s.mood)) = Mood_better(s.mood)
    /\ Mood_hearts(s.mood) = 0 => Mood_worse(s.mood) = s.mood
    /\ Health_better(s.health) \in Health /\ Health_worse(s.health) \in Health
    /\ Health_hearts(Health_better(s.health)) = Up(Health_hearts(s.health))
    /\ Health_hearts(Health_worse(s.health)) = Down(Health_hearts(s.health))
    /\ Health_hearts(s.health) = 4 =>
           /\ Health_better(s.health) = s.health
           /\ Health_better(Health_better(s.health)) = Health_better(s.health)
    /\ Health_hearts(s.health) = 0 => Health_worse(s.health) = s.health

\* levels at the top, at the bottom and just below the top at once
C8_Witness ==
    /\ tamagotchi.status.hunger = "Full"
    /\ tamagotchi.status.mood = "Miserable"
    /\ tamagotchi.status.health = "Strong"
    /\ op = "feed"

(* C9: from Hunger at index i, after k eat actions Hunger is at index
   min(4, i+k); in particular from Starving four eats reach Full and a fifth
   leaves Hunger at Full. *)
C9_EatsSaturate ==
    /\ Hunger_hearts(tamagotchi.status.hunger)
           = Min(4, Hunger_hearts(initial.status.hunger) + feeds)
    /\ (initial.status.hunger = "Starving" /\ feeds >= 4)
           => tamagotchi.status.hunger = "Full"

\* the fifth of five consecutive eats from Starving
C9_Witness ==
    /\ initial.status.hunger = "Starving"
    /\ feeds = 5
    /\ op = "feed"
    /\ plays = 0
    /\ tamagotchi.status.mood = initial.status.mood
    /\ tamagotchi.status.health = initial.status.health
    /\ tamagotchi.status.hunger = "Full"

(* C10: the light action flips the Status Light (On becomes Off, Off becomes
   On) in the returned Tamagotchi and changes no attribute score.  The code
   computes the flipped Light and returns the Tamagotchi unchanged. *)
C10_LightFlips ==
    [][op' = "light" =>
        /\ tamagotchi'.status.light # tamagotchi.status.light
        /\ tamagotchi'.status.light \in Light
        /\ care_score(tamagotchi'.status) = care_score(tamagotchi.status)]_vars

(* C11: Form is monotonic: along any sequence of feed, play, light,
   give_medicine, duck, attention, discipline and sleep the Form never moves
   to an earlier stage in the order Egg, Baby, Child, Teen, Adult, Special.
   The source has no operation that advances time; every operation it has
   clones the form. *)
C11_FormMonotonic ==
    [][Stage(tamagotchi'.form) >= Stage(tamagotchi.form)]_vars

\* a child that has been fed, played with and put to sleep, and is a child
C11_Witness ==
    /\ initial.form = "Tonmarutchi"
    /\ tamagotchi.form = "Tonmarutchi"
    /\ feeds > 0 /\ plays > 0 /\ sleeps > 0
    /\ op = "play"

(* C12, as the spec words it: a newly created Tamagotchi has Form = Egg,
   Hunger, Mood and Health at index 0, and Discipline and Care Level at
   their best (ModelAlien and Perfect). *)
C12_NewIsBestCare ==
    (op = "new" /\ tamagotchi \in NewTamagotchi) =>
        /\ tamagotchi.form = "Tamago"
        /\ Hunger_hearts(tamagotchi.status.hunger) = 0
        /\ Mood_hearts(tamagotchi.status.mood) = 0
        /\ Health_hearts(tamagotchi.status.health) = 0
        /\ tamagotchi.status.discipline = "ModelAlien"
        /\ tamagotchi.status.care = "Perfect"

(* C12, amended: a newly created Tamagotchi has Form = Egg, Hunger, Mood and
   Health at index 0 and the stored Care Level Good, one below the best; the
   source gives Discipline no default. *)
C12_NewIsGoodCare ==
    (op = "new" /\ tamagotchi \in NewTamagotchi) =>
        /\ tamagotchi.form = "Tamago"
        /\ Hunger_hearts(tamagotchi.status.hunger) = 0
        /\ Mood_hearts(tamagotchi.status.mood) = 0
        /\ Health_hearts(tamagotchi.status.health) = 0
        /\ tamagotchi.status.care = "Good"

\* a new Tamagotchi, here one whose Discipline is not the best
C12_Witness ==
    /\ op = "new"
    /\ tamagotchi \in NewTamagotchi
    /\ tamagotchi.status.discipline = "Average"
    /\ tamagotchi.status.light = "Off"

(* C13: the core does not generate randomness itself: every operation,
   including the one that yields the Good/Bad behavior, is deterministic, so
   the same inputs give the same outputs.  Stated on the two operations that
   return a value without changing the Tamagotchi: a call repeated on the
   same Tamagotchi returns what the call before it returned.  Behavior::reduce
   matches on rand::random(), so it fails. *)
C13_SameInputSameOutput ==
    [][(/\ op \in {"care_level", "reduce"}
        /\ op' = op
        /\ tamagotchi' = tamagotchi) => ret' = ret]_vars

(* C14: a Child whose time has come evolves to a Teen form chosen by care:
   Tongaritchi when the care score meets the 75% cutoff (12 of 16),
   Hashitamatchi below it.  No operation of the source builds a TeenForm or
   assigns a form, so a child stays a child however long the shell runs. *)
C14_ChildBecomesTeen ==
    (tamagotchi.form = "Tonmarutchi") ~>
        /\ Stage(tamagotchi.form) = 3
        /\ tamagotchi.form =
               (IF 4 * care_score(tamagotchi.status) >= 3 * 16
                    THEN <<"Teen", "Tongaritchi">>
                    ELSE <<"Teen", "Hashitamatchi">>)

(* C15: each of give_medicine, duck, attention and discipline returns a
   Tamagotchi equal to its input in every field, whatever the values of
   sick, soiled, mood and discipline. *)
C15_NoOpActions ==
    [][op' \in {"give_medicine", "duck", "attention", "discipline"}
           => tamagotchi' = tamagotchi]_vars

\* medicine given to a sick, soiled, Cheerful, Bratty Tamagotchi: still sick
C15_Witness ==
    /\ op = "give_medicine"
    /\ tamagotchi.status.sick
    /\ tamagotchi.status.soiled
    /\ tamagotchi.status.mood = "Cheerful"
    /\ tamagotchi.status.discipline = "Bratty"

(* C16: no action ever changes discipline, sick, soiled or asleep;
   consequently care_level can be Perfect only if Discipline was ModelAlien
   in the starting state. *)
C16_ConditionsFrozen ==
    /\ tamagotchi.status.discipline = initial.status.discipline
    /\ tamagotchi.status.sick = initial.status.sick
    /\ tamagotchi.status.soiled = initial.status.soiled
    /\ tamagotchi.status.asleep = initial.status.asleep
    /\ care_level(tamagotchi.status) = "Perfect"
           => initial.status.discipline = "ModelAlien"

\* Perfect reached by actions, discipline among them, from a ModelAlien start
C16_Witness ==
    /\ op = "discipline"
    /\ care_level(tamagotchi.status) = "Perfect"
    /\ care_level(initial.status) = "BelowAverage"
    /\ initial.status.discipline = "ModelAlien"

(* C17: along any sequence of actions the care score hearts(hunger) +
   hearts(mood) + hearts(health) + meter(discipline) never decreases, so the
   band care_level returns never moves to a lower band. *)
C17_CareNeverDrops ==
    [][\/ tamagotchi'.status = tamagotchi.status
       \/ /\ care_score(tamagotchi'.status) >= care_score(tamagotchi.status)
          /\ BandIndex(care_level(tamagotchi'.status))
                 >= BandIndex(care_level(tamagotchi.status))]_vars

\* a play that lifted the score across a band boundary
C17_Witness ==
    /\ op = "play"
    /\ care_score(tamagotchi.status) = 8
    /\ care_level(tamagotchi.status) = "AboveAverage"
    /\ feeds = 3 /\ sleeps = 2 /\ plays = 1
    /\ care_score(initial.status) = 0

(* C18: from any Status, if eat and sleep are each applied again and again,
   the Status eventually has Hunger = Full, Mood = Cheerful and Health =
   Eggcellent, after at most 4 eats and 4 sleeps, and from then on every
   eat, play and sleep leaves the Status unchanged. *)
C18_ReachesTopAndStays ==
    /\ <>[]Top(tamagotchi.status)
    /\ []((feeds >= 4 /\ sleeps >= 4) => Top(tamagotchi.status))
    /\ [][(Top(tamagotchi.status) /\ op' \in {"feed", "play", "sleep"})
              => tamagotchi'.status = tamagotchi.status]_vars

\* the top reached from the bottom, and a play made at the top after it
C18_Witness ==
    /\ Hunger_hearts(initial.status.hunger) = 0
    /\ Mood_hearts(initial.status.mood) = 0
    /\ Health_hearts(initial.status.health) = 0
    /\ feeds = 4 /\ sleeps = 4 /\ plays = 1
    /\ op = "play"
    /\ Top(tamagotchi.status)

(* C19: eat, play and sleep commute on Status: two sequences of these
   actions with the same number of each give the same Status.  Whatever
   order the run took, its Status is the one of all eats, then all plays,
   then all sleeps, and the one of all sleeps, then all plays, then all
   eats. *)
C19_OrderIrrelevant ==
    /\ tamagotchi.status
           = Sleeps(Plays(Eats(initial.status, feeds), plays), sleeps)
    /\ tamagotchi.status
           = Eats(Plays(Sleeps(initial.status, sleeps), plays), feeds)

\* a run that ended with a feed after a play and sleeps, Mood saturating
C19_Witness ==
    /\ op = "feed"
    /\ feeds = 2 /\ plays = 1 /\ sleeps = 2
    /\ initial.status.mood = "Optimistic"
    /\ initial.status.health = "Neglected"
    /\ tamagotchi.status.health = "Normal"

====
